---- MODULE Spec2Model ----
(***************************************************************************)
(* cookie-check: the Set-Cookie parser (parseCookie), the scorer           *)
(* (auditCookie), the redirect-following fetch (fetchUrl) and the CLI      *)
(* driver (main) of src/src/index.ts.                                      *)
(*                                                                         *)
(* Strings are sequences of one-character strings, so that indexOf, slice, *)
(* split, trim, startsWith and toLowerCase are computed as the code        *)
(* computes them.  A nullable field (string | null, number | null) is a    *)
(* sequence of length 0 (null) or 1 (the value), which keeps null apart    *)
(* from the empty string and from 0.  A JavaScript number is a record      *)
(* [nan, n]: parseInt can return NaN.                                      *)
(***************************************************************************)
EXTENDS Integers, Sequences, FiniteSets, TLC

VARIABLES
    pc,        \* where the run is: "parse", "audit", "done" for a call of
               \* parseCookie / auditCookie; main's positions otherwise
    header,    \* the raw Set-Cookie header given to parseCookie
    cookie,    \* the CookieAttribute record
    isHttps,   \* the transport flag given to auditCookie
    audit,     \* the CookieAudit returned by auditCookie, Null before
    args,      \* main: the record parseArgs returned
    targetUrl, \* main: the URL with its protocol ensured
    reqUrl,    \* fetchUrl: the targetUrl of the call in progress
    maxRedirects, \* fetchUrl: the redirects the call in progress may follow
    requests,  \* the requests issued so far
    response,  \* main: what fetchUrl resolved with, Null before
    audits,    \* main: the audits of the response's cookies
    stderr,    \* main: the errors written with console.error
    exitCode   \* the process's exit code, Null while it runs

callVars == <<header, cookie, audit>>

mainVars == <<args, targetUrl, reqUrl, maxRedirects, requests, response, audits,
              stderr, exitCode>>

vars == <<pc, isHttps, callVars, mainVars>>

----------------------------------------------------------------------------
(* JavaScript values *)

Null == <<>>

Some(x) == <<x>>

Num(n) == [nan |-> FALSE, n |-> n]

NaN == [nan |-> TRUE, n |-> 0]

\* x || null for a string x that may be undefined (here: Null): a falsy
\* string (undefined or "") becomes null.
OrNull(opt) == IF opt = Null \/ opt = Some(<<>>) THEN Null ELSE opt

\* x || "0"
OrZero(opt) == IF opt = Null \/ opt = Some(<<>>) THEN <<"0">> ELSE opt[1]

\* !x for a nullable string: null and "" are falsy.
Falsy(opt) == opt = Null \/ opt = Some(<<>>)

----------------------------------------------------------------------------
(* String.prototype methods *)

WhiteSpace == {" ", "\t"}

UpperCase == <<"A", "B", "C", "D", "E", "F", "G", "H", "I", "J", "K", "L", "M",
               "N", "O", "P", "Q", "R", "S", "T", "U", "V", "W", "X", "Y", "Z">>

LowerCase == <<"a", "b", "c", "d", "e", "f", "g", "h", "i", "j", "k", "l", "m",
               "n", "o", "p", "q", "r", "s", "t", "u", "v", "w", "x", "y", "z">>

Digits == <<"0", "1", "2", "3", "4", "5", "6", "7", "8", "9">>

ToLowerChar(ch) ==
    IF \E i \in 1..Len(UpperCase) : UpperCase[i] = ch
    THEN LowerCase[CHOOSE i \in 1..Len(UpperCase) : UpperCase[i] = ch]
    ELSE ch

toLowerCase(s) == [i \in 1..Len(s) |-> ToLowerChar(s[i])]

\* s.indexOf(ch): the 0-based index of the first ch, or -1.
indexOf(s, ch) ==
    IF \E i \in 1..Len(s) : s[i] = ch
    THEN (CHOOSE i \in 1..Len(s) : s[i] = ch /\ \A j \in 1..(i - 1) : s[j] # ch) - 1
    ELSE -1

\* s.slice(from, to) with 0-based from (inclusive) and to (exclusive).
slice(s, from, to) == SubSeq(s, from + 1, to)

\* s.slice(from)
sliceFrom(s, from) == SubSeq(s, from + 1, Len(s))

startsWith(s, prefix) ==
    /\ Len(s) >= Len(prefix)
    /\ SubSeq(s, 1, Len(prefix)) = prefix

RECURSIVE trimStart(_)
trimStart(s) ==
    IF s # <<>> /\ Head(s) \in WhiteSpace THEN trimStart(Tail(s)) ELSE s

RECURSIVE trimEnd(_)
trimEnd(s) ==
    IF s # <<>> /\ s[Len(s)] \in WhiteSpace
    THEN trimEnd(SubSeq(s, 1, Len(s) - 1))
    ELSE s

trim(s) == trimEnd(trimStart(s))

\* s.split(ch): always at least one piece; "".split(ch) is [""].
RECURSIVE split(_, _)
split(s, ch) ==
    LET i == indexOf(s, ch)
    IN  IF i = -1
        THEN <<s>>
        ELSE <<slice(s, 0, i)>> \o split(sliceFrom(s, i + 1), ch)

\* The value of a run of decimal digits.
RECURSIVE DigitsValue(_)
DigitsValue(s) ==
    IF s = <<>>
    THEN 0
    ELSE 10 * DigitsValue(SubSeq(s, 1, Len(s) - 1))
         + indexOf(Digits, s[Len(s)])

\* The longest prefix of s made of decimal digits.
RECURSIVE DigitPrefix(_)
DigitPrefix(s) ==
    IF s # <<>> /\ indexOf(Digits, Head(s)) # -1
    THEN <<Head(s)>> \o DigitPrefix(Tail(s))
    ELSE <<>>

\* parseInt(s, 10): leading white space skipped, an optional sign, then the
\* longest run of digits; NaN when there is no digit.
parseInt(s) ==
    LET t == trimStart(s)
        signed == t # <<>> /\ Head(t) \in {"+", "-"}
        body == IF signed THEN Tail(t) ELSE t
        ds == DigitPrefix(body)
    IN  IF ds = <<>>
        THEN NaN
        ELSE Num(IF signed /\ Head(t) = "-" THEN 0 - DigitsValue(ds) ELSE DigitsValue(ds))

----------------------------------------------------------------------------
(* parseCookie, src/src/index.ts 220-259 *)

\* attr.split("=")[1]?.trim(): undefined (Null) when the split has one piece.
SplitSecondTrimmed(attr) ==
    LET pieces == split(attr, "=")
    IN  IF Len(pieces) >= 2 THEN Some(trim(pieces[2])) ELSE Null

\* One iteration of the loop over attrs (lines 239-256).
ParseAttr(c, attr) ==
    LET lower == toLowerCase(attr)
    IN  IF lower = <<"h", "t", "t", "p", "o", "n", "l", "y">>
        THEN [c EXCEPT !.httpOnly = TRUE]
        ELSE IF lower = <<"s", "e", "c", "u", "r", "e">>
        THEN [c EXCEPT !.secure = TRUE]
        ELSE IF startsWith(lower, <<"s", "a", "m", "e", "s", "i", "t", "e", "=">>)
        THEN [c EXCEPT !.sameSite = OrNull(SplitSecondTrimmed(attr))]
        ELSE IF startsWith(lower, <<"p", "a", "t", "h", "=">>)
        THEN [c EXCEPT !.path = OrNull(SplitSecondTrimmed(attr))]
        ELSE IF startsWith(lower, <<"d", "o", "m", "a", "i", "n", "=">>)
        THEN [c EXCEPT !.domain = OrNull(SplitSecondTrimmed(attr))]
        ELSE IF startsWith(lower, <<"e", "x", "p", "i", "r", "e", "s", "=">>)
        THEN [c EXCEPT !.expires = Some(trim(sliceFrom(attr, indexOf(attr, "=") + 1)))]
        ELSE IF startsWith(lower, <<"m", "a", "x", "-", "a", "g", "e", "=">>)
        THEN [c EXCEPT !.maxAge = Some(parseInt(OrZero(SplitSecondTrimmed(attr))))]
        ELSE c

RECURSIVE ParseAttrs(_, _)
ParseAttrs(c, attrs) ==
    IF attrs = <<>> THEN c ELSE ParseAttrs(ParseAttr(c, Head(attrs)), Tail(attrs))

\* const parts = setCookieHeader.split(";").map((p) => p.trim())
HeaderParts(setCookieHeader) ==
    LET raw == split(setCookieHeader, ";")
    IN  [i \in 1..Len(raw) |-> trim(raw[i])]

\* The name of the first segment (lines 223-224).
CookieName(nameValue) ==
    LET eqIdx == indexOf(nameValue, "=")
    IN  IF eqIdx > 0 THEN trim(slice(nameValue, 0, eqIdx)) ELSE trim(nameValue)

\* The value of the first segment (lines 223, 225).
CookieValue(nameValue) ==
    LET eqIdx == indexOf(nameValue, "=")
    IN  IF eqIdx > 0 THEN trim(sliceFrom(nameValue, eqIdx + 1)) ELSE <<>>

parseCookie(setCookieHeader) ==
    LET parts == HeaderParts(setCookieHeader)
        nameValue == Head(parts)
        attrs == Tail(parts)
    IN  ParseAttrs([name |-> CookieName(nameValue),
                    value |-> CookieValue(nameValue),
                    httpOnly |-> FALSE,
                    secure |-> FALSE,
                    sameSite |-> Null,
                    path |-> Null,
                    domain |-> Null,
                    expires |-> Null,
                    maxAge |-> Null],
                   attrs)

----------------------------------------------------------------------------
(* auditCookie, src/src/index.ts 261-362 *)

\* One rule of auditCookie: when cond holds, the issue (and the
\* recommendation, when the rule has one) is pushed and the score lowered.
Deduct(a, cond, issue, recs, points) ==
    IF cond
    THEN [score |-> a.score - points,
          issues |-> Append(a.issues, issue),
          recommendations |-> a.recommendations \o recs]
    ELSE a

\* The SameSite=None branch (lines 292-301) with the points it takes when
\* Secure is missing and the points it always takes.
SameSiteNoneRule(a, c, noSecurePoints, nonePoints) ==
    LET isNone == ~Falsy(c.sameSite)
                  /\ toLowerCase(c.sameSite[1]) = <<"n", "o", "n", "e">>
        a1 == Deduct(a, isNone /\ ~c.secure, "samesite-none-requires-secure", <<>>,
                     noSecurePoints)
    IN  Deduct(a1, isNone, "samesite-none", <<"use-samesite-lax">>, nonePoints)

\* Mutant: SameSite=None always costs 10 instead of 5.
SameSiteNone_Heavier(a, c) == SameSiteNoneRule(a, c, 15, 10)

SameSiteNone(a, c) == SameSiteNoneRule(a, c, 15, 5)

\* score = Math.max(0, Math.min(100, score))
Clamp(score) ==
    LET capped == IF score < 100 THEN score ELSE 100
    IN  IF capped > 0 THEN capped ELSE 0

\* Mutant: the A threshold taken exclusive.
GradeOf_ExclusiveA(score) ==
    IF score > 90 THEN "A"
    ELSE IF score >= 75 THEN "B"
    ELSE IF score >= 60 THEN "C"
    ELSE IF score >= 40 THEN "D"
    ELSE "F"

\* The if-chain of lines 354-359.
GradeOf(score) ==
    IF score >= 90 THEN "A"
    ELSE IF score >= 75 THEN "B"
    ELSE IF score >= 60 THEN "C"
    ELSE IF score >= 40 THEN "D"
    ELSE "F"

\* Mutant: only an explicit path other than "/" is a mismatch.
HostPathMismatch_ExplicitOnly(c) == c.path # Null /\ c.path # Some(<<"/">>)

\* cookie.path !== "/" (line 335): a missing path is a mismatch too.
HostPathMismatch(c) == c.path # Some(<<"/">>)

\* The rules of lines 264-350 in order, before the clamp.
ApplyRules(c, https) ==
    LET a0 == [score |-> 100, issues |-> <<>>, recommendations |-> <<>>]
        a1 == Deduct(a0, ~c.httpOnly, "missing-httponly", <<"add-httponly">>, 25)
        a2 == Deduct(a1, ~c.secure /\ https, "missing-secure-https", <<"add-secure">>, 25)
        a3 == Deduct(a2, ~c.secure /\ ~https, "missing-secure-cleartext",
                     <<"serve-https-add-secure">>, 20)
        a4 == Deduct(a3, Falsy(c.sameSite), "missing-samesite", <<"add-samesite">>, 20)
        a5 == SameSiteNone(a4, c)
        a6 == Deduct(a5, Falsy(c.path), "no-path", <<"set-path">>, 5)
        a7 == Deduct(a6, c.maxAge = Null /\ c.expires = Null, "session-cookie", <<>>, 2)
        a8 == Deduct(a7,
                     /\ ~(c.maxAge = Null /\ c.expires = Null)
                     /\ c.maxAge # Null
                     /\ ~c.maxAge[1].nan
                     /\ c.maxAge[1].n > 365 * 24 * 60 * 60,
                     "expires-over-1-year", <<"shorter-expiry">>, 5)
        a9 == Deduct(a8,
                     startsWith(c.name, <<"_", "_", "S", "e", "c", "u", "r", "e", "-">>)
                     /\ ~c.secure,
                     "secure-prefix-requires-secure", <<>>, 10)
        isHost == startsWith(c.name, <<"_", "_", "H", "o", "s", "t", "-">>)
        a10 == Deduct(a9, isHost /\ ~c.secure, "host-prefix-requires-secure", <<>>, 10)
        a11 == Deduct(a10, isHost /\ HostPathMismatch(c), "host-prefix-requires-path",
                      <<>>, 5)
        a12 == Deduct(a11, isHost /\ ~Falsy(c.domain), "host-prefix-no-domain", <<>>, 5)
    IN  Deduct(a12, c.value # <<>> /\ Len(c.value) > 4096, "value-over-4096",
               <<"store-server-side">>, 5)

auditCookie(c, https) ==
    LET a == ApplyRules(c, https)
        score == Clamp(a.score)
    IN  [cookie |-> c,
         grade |-> GradeOf(score),
         score |-> score,
         issues |-> a.issues,
         recommendations |-> a.recommendations]

----------------------------------------------------------------------------
(* Inputs *)

\* A string of n copies of ch.
Repeat(ch, n) == [i \in 1..n |-> ch]

\* s1 followed by s2, s3, ... each after the separator sep.
RECURSIVE Join(_, _)
Join(segs, sep) ==
    IF Len(segs) = 1 THEN Head(segs) ELSE Head(segs) \o sep \o Join(Tail(segs), sep)

\* The sequences over S of length at most n.
SeqUpTo(S, n) == UNION {[1..k -> S] : k \in 0..n}

NameId == <<"i", "d">>

NameSecureId == <<"_", "_", "S", "e", "c", "u", "r", "e", "-", "i", "d">>

NameHostId == <<"_", "_", "H", "o", "s", "t", "-", "i", "d">>

StrLax == <<"L", "a", "x">>

StrNone == <<"N", "o", "n", "e">>

StrNONE == <<"N", "O", "N", "E">>

StrRoot == <<"/">>

StrApp == <<"/", "a">>

StrDomain == <<"a", ".", "i", "o">>

StrDate == <<"M", "o", "n", ",", " ", "0", "1">>

\* The non-ASCII character U+00E9 is written "U+00E9": one UTF-16 code unit,
\* two bytes in UTF-8.
EAcute == "U+00E9"

\* The CookieAttribute records auditCookie is called with.  The optional
\* strings are null or non-empty, as parseCookie leaves them; maxAge may be
\* NaN; the values straddle the 4096 limit.
AuditValues ==
    {<<>>, <<"1">>, Repeat("a", 4096), Repeat("a", 4097), Repeat(EAcute, 2049)}

AuditCookies ==
    [name : {NameId, NameSecureId, NameHostId},
     value : AuditValues,
     httpOnly : BOOLEAN,
     secure : BOOLEAN,
     sameSite : {Null, Some(StrLax), Some(StrNone), Some(StrNONE)},
     path : {Null, Some(StrRoot), Some(StrApp)},
     domain : {Null, Some(StrDomain)},
     expires : {Null, Some(StrDate)},
     maxAge : {Null, Some(Num(0)), Some(Num(365 * 24 * 60 * 60)),
               Some(Num(365 * 24 * 60 * 60 + 1)), Some(NaN)}]

NoCookie == [name |-> <<>>, value |-> <<>>, httpOnly |-> FALSE, secure |-> FALSE,
             sameSite |-> Null, path |-> Null, domain |-> Null, expires |-> Null,
             maxAge |-> Null]

----------------------------------------------------------------------------
(* A call of auditCookie on a record *)

NoArgs == [help |-> FALSE, url |-> <<>>, ci |-> FALSE, minGrade |-> "C",
           followRedirects |-> TRUE]

\* No run of main is in progress.
MainIdle ==
    /\ args = NoArgs
    /\ targetUrl = <<>>
    /\ reqUrl = <<>>
    /\ maxRedirects = 0
    /\ requests = 0
    /\ response = Null
    /\ audits = <<>>
    /\ stderr = <<>>
    /\ exitCode = Null

InitAudit ==
    /\ MainIdle
    /\ pc = "audit"
    /\ header = <<>>
    /\ cookie \in AuditCookies
    /\ isHttps \in BOOLEAN
    /\ audit = Null

\* return auditCookie(cookie, isHttps)
AuditCookie ==
    /\ pc = "audit"
    /\ audit' = Some(auditCookie(cookie, isHttps))
    /\ pc' = "done"
    /\ UNCHANGED <<header, cookie, isHttps, mainVars>>

NextAudit == AuditCookie

SpecAudit == InitAudit /\ [][NextAudit]_vars

----------------------------------------------------------------------------
(* A call of parseCookie on a raw header, then of auditCookie on its result *)

\* "a=1"
SegA1 == <<"a", "=", "1">>

\* "=v"
SegEqV == <<"=", "v">>

\* "a"
SegBare == <<"a">>

\* "a=b=c"
SegB64 == <<"a", "=", "b", "=", "c">>

\* "__Host-a=1"
SegHost == <<"_", "_", "H", "o", "s", "t", "-", "a", "=", "1">>

\* "a = 1"
SegSpaced == <<"a", " ", "=", " ", "1">>

\* ""
SegEmpty == <<>>

\* "Secure"
AttrSecure == <<"S", "e", "c", "u", "r", "e">>

\* "HTTPONLY"
AttrHttpOnly == <<"H", "T", "T", "P", "O", "N", "L", "Y">>

\* "SameSite=Lax"
AttrSameSiteLax == <<"S", "a", "m", "e", "S", "i", "t", "e", "=", "L", "a", "x">>

\* "SameSite="
AttrSameSiteEmpty == <<"S", "a", "m", "e", "S", "i", "t", "e", "=">>

\* "samesite=None"
AttrSameSiteNone == <<"s", "a", "m", "e", "s", "i", "t", "e", "=", "N", "o", "n", "e">>

\* "Path=/"
AttrPathRoot == <<"P", "a", "t", "h", "=", "/">>

\* "Path="
AttrPathEmpty == <<"P", "a", "t", "h", "=">>

\* "Path=/a=b"
AttrPathEq == <<"P", "a", "t", "h", "=", "/", "a", "=", "b">>

\* "Domain=a.io"
AttrDomain == <<"D", "o", "m", "a", "i", "n", "=", "a", ".", "i", "o">>

\* "Domain="
AttrDomainEmpty == <<"D", "o", "m", "a", "i", "n", "=">>

\* "Expires=Mon, 01"
AttrExpires == <<"E", "x", "p", "i", "r", "e", "s", "=", "M", "o", "n", ",", " ", "0", "1">>

\* "expires=a=b"
AttrExpiresEq == <<"e", "x", "p", "i", "r", "e", "s", "=", "a", "=", "b">>

\* "Max-Age=3600"
AttrMaxAge == <<"M", "a", "x", "-", "A", "g", "e", "=", "3", "6", "0", "0">>

\* "Max-Age=abc"
AttrMaxAgeAbc == <<"M", "a", "x", "-", "A", "g", "e", "=", "a", "b", "c">>

\* "Max-Age="
AttrMaxAgeEmpty == <<"M", "a", "x", "-", "A", "g", "e", "=">>

\* "Priority=High"
AttrUnknown == <<"P", "r", "i", "o", "r", "i", "t", "y", "=", "H", "i", "g", "h">>

FirstSegments == {SegA1, SegEqV, SegBare, SegB64, SegHost, SegSpaced, SegEmpty}

AttrSegments ==
    {AttrSecure, AttrHttpOnly, AttrSameSiteLax, AttrSameSiteEmpty,
     AttrSameSiteNone, AttrPathRoot, AttrPathEmpty, AttrPathEq,
     AttrDomain, AttrDomainEmpty, AttrExpires, AttrExpiresEq,
     AttrMaxAge, AttrMaxAgeAbc, AttrMaxAgeEmpty, AttrUnknown}

\* The most attribute segments a header of the model carries.
MaxAttrs == 2

\* The raw headers: a first segment, then up to MaxAttrs attribute segments,
\* each after "; ".
Headers ==
    {Join(<<first>> \o attrs, <<";", " ">>) :
        first \in FirstSegments, attrs \in SeqUpTo(AttrSegments, MaxAttrs)}

InitParse ==
    /\ MainIdle
    /\ pc = "parse"
    /\ header \in Headers
    /\ cookie = NoCookie
    /\ isHttps \in BOOLEAN
    /\ audit = Null

\* const cookie = parseCookie(raw)
ParseCookie ==
    /\ pc = "parse"
    /\ cookie' = parseCookie(header)
    /\ pc' = "audit"
    /\ UNCHANGED <<header, isHttps, audit, mainVars>>

NextParse == ParseCookie \/ AuditCookie

SpecParse == InitParse /\ [][NextParse]_vars

----------------------------------------------------------------------------
(* fetchUrl and main, src/src/index.ts 154-218 and 431-562 *)

StrHttp == <<"h", "t", "t", "p", ":", "/", "/">>

StrHttps == <<"h", "t", "t", "p", "s", ":", "/", "/">>

\* "a.io"
UrlBare == <<"a", ".", "i", "o">>

\* "http://a.io"
UrlHttp == <<"h", "t", "t", "p", ":", "/", "/", "a", ".", "i", "o">>

\* "https://a.io"
UrlHttps == <<"h", "t", "t", "p", "s", ":", "/", "/", "a", ".", "i", "o">>

\* Location: "http://b.io/"
LocHttp == <<"h", "t", "t", "p", ":", "/", "/", "b", ".", "i", "o", "/">>

\* Location: "https://b.io/"
LocHttps == <<"h", "t", "t", "p", "s", ":", "/", "/", "b", ".", "i", "o", "/">>

\* Location: "/x"
LocPath == <<"/", "x">>

\* The positional URL argument; empty when none is given.
ArgUrls == {<<>>, UrlBare, UrlHttp, UrlHttps}

\* --min-grade upper-cased; "Z" stands for a value that is no grade.
ArgGrades == {"A", "B", "C", "D", "F", "Z"}

\* The records parseArgs returns (the fields main's control flow reads).
\* minGrade is read only under --ci (line 545): without --ci it is left at
\* its default.
Args ==
    {a \in [help : BOOLEAN, url : ArgUrls, ci : BOOLEAN, minGrade : ArgGrades,
             followRedirects : BOOLEAN] :
        ~a.ci => a.minGrade = "C"}

\* Set-Cookie headers of the servers: graded A (100), D (48), F (23 under
\* https, 28 under http), and one graded C (73) under https and B (78)
\* under http.
CookieA == Join(<<SegA1, AttrSecure, AttrHttpOnly, AttrSameSiteLax, AttrPathRoot, AttrMaxAge>>, <<";", " ">>)

CookieD == Join(<<SegA1, AttrSecure>>, <<";", " ">>)

CookieF == SegA1

CookieNoSecure == Join(<<SegA1, AttrHttpOnly, AttrSameSiteLax, AttrPathRoot>>, <<";", " ">>)

ServerCookies == {CookieA, CookieD, CookieF, CookieNoSecure}

\* The most Set-Cookie headers a response of the model carries.
MaxCookies == 2

\* The responses a server may give: res.statusCode, res.headers.location
\* (Null when absent) and res.headers["set-cookie"].  A 302 comes with any
\* Location or none; a 200 with none or, unusually, with one.
Responses ==
    [statusCode : {302},
     location : {Null, Some(LocHttp), Some(LocHttps), Some(LocPath)},
     setCookie : SeqUpTo(ServerCookies, MaxCookies)]
    \cup
    [statusCode : {200},
     location : {Null, Some(LocHttp)},
     setCookie : SeqUpTo(ServerCookies, MaxCookies)]

\* parsed.protocol of new URL(u): the scheme with its colon.
Protocol(u) == slice(u, 0, indexOf(u, ":") + 1)

\* The origin of an absolute URL: scheme, "//" and host.
Origin(u) ==
    LET rest == sliceFrom(u, Len(Protocol(u)) + 2)
        hostEnd == indexOf(rest, "/")
    IN  Protocol(u) \o <<"/", "/">>
        \o (IF hostEnd = -1 THEN rest ELSE slice(rest, 0, hostEnd))

\* new URL(location, base).toString() for an absolute location or a path.
ResolveUrl(location, base) ==
    IF startsWith(location, StrHttp) \/ startsWith(location, StrHttps)
    THEN location
    ELSE Origin(base) \o location

\* const maxRedirects = options.maxRedirects ?? 5
DefaultMaxRedirects == 5

GRADE_ORDER == [A |-> 5, B |-> 4, C |-> 3, D |-> 2, F |-> 1]

\* GRADE_ORDER[args.minGrade] || 3
MinGradeNum(minGrade) ==
    IF minGrade \in DOMAIN GRADE_ORDER THEN GRADE_ORDER[minGrade] ELSE 3

\* Mutant: a cookie graded exactly min-grade counts as bad.
HasBadCookie_Inclusive(as, minGrade) ==
    \E i \in 1..Len(as) : GRADE_ORDER[as[i].grade] <= MinGradeNum(minGrade)

\* audits.some((a) => GRADE_ORDER[a.grade] < minGradeNum)
HasBadCookie(as, minGrade) ==
    \E i \in 1..Len(as) : GRADE_ORDER[as[i].grade] < MinGradeNum(minGrade)

\* The protocol ensured (lines 446-449).
EnsureProtocol(url) ==
    IF ~startsWith(url, StrHttp) /\ ~startsWith(url, StrHttps)
    THEN StrHttps \o url
    ELSE url

\* Mutant: the redirect budget is not consulted.
IsRedirect_NoBudget(res, followRedirects, redirectsLeft) ==
    /\ followRedirects
    /\ res.statusCode >= 300
    /\ res.statusCode < 400
    /\ ~Falsy(res.location)

\* The condition of lines 184-191 under which a response is followed.
IsRedirect(res, followRedirects, redirectsLeft) ==
    /\ followRedirects
    /\ res.statusCode >= 300
    /\ res.statusCode < 400
    /\ ~Falsy(res.location)
    /\ redirectsLeft > 0

InitMain ==
    /\ pc = "main"
    /\ args \in Args
    /\ isHttps = FALSE
    /\ header = <<>>
    /\ cookie = NoCookie
    /\ audit = Null
    /\ targetUrl = <<>>
    /\ reqUrl = <<>>
    /\ maxRedirects = 0
    /\ requests = 0
    /\ response = Null
    /\ audits = <<>>
    /\ stderr = <<>>
    /\ exitCode = Null

\* process.exit(code)
Exit(code) ==
    /\ pc' = "exited"
    /\ exitCode' = Some(code)

\* main, lines 434-437: --help prints the help and exits 0.
MainHelp ==
    /\ pc = "main"
    /\ args.help
    /\ Exit(0)
    /\ UNCHANGED <<isHttps, callVars, args, targetUrl, reqUrl, maxRedirects, requests,
                   response, audits, stderr>>

\* main, lines 439-443: no URL is an error, exit 1.
MainNoUrl ==
    /\ pc = "main"
    /\ ~args.help
    /\ args.url = <<>>
    /\ stderr' = Append(stderr, "no-url")
    /\ Exit(1)
    /\ UNCHANGED <<isHttps, callVars, args, targetUrl, reqUrl, maxRedirects, requests,
                   response, audits>>

\* main, lines 445-465: the protocol is ensured, isHttps is taken from the
\* URL given, and fetchUrl is called with the default of 5 redirects.
MainFetch ==
    /\ pc = "main"
    /\ ~args.help
    /\ args.url # <<>>
    /\ targetUrl' = EnsureProtocol(args.url)
    /\ isHttps' = startsWith(targetUrl', <<"h", "t", "t", "p", "s", ":">>)
    /\ reqUrl' = targetUrl'
    /\ maxRedirects' = DefaultMaxRedirects
    /\ pc' = "fetch"
    /\ UNCHANGED <<callVars, args, requests, response, audits, stderr, exitCode>>

\* fetchUrl, lines 163-182 and 216: one GET request is issued to reqUrl.
FetchRequest ==
    /\ pc = "fetch"
    /\ requests' = requests + 1
    /\ pc' = "await"
    /\ UNCHANGED <<isHttps, callVars, args, targetUrl, reqUrl, maxRedirects, response,
                   audits, stderr, exitCode>>

\* fetchUrl, lines 210-214, and main, lines 466-469: the request errors or
\* times out, the promise rejects, main reports it and exits 1.
FetchFails ==
    /\ pc = "await"
    /\ stderr' = Append(stderr, "fetch-error")
    /\ Exit(1)
    /\ UNCHANGED <<isHttps, callVars, args, targetUrl, reqUrl, maxRedirects, requests,
                   response, audits>>

\* fetchUrl, lines 184-197: a 3xx response with a Location is followed by a
\* nested fetchUrl with one redirect less.
FetchRedirect ==
    /\ pc = "await"
    /\ \E res \in Responses :
        /\ IsRedirect(res, args.followRedirects, maxRedirects)
        /\ reqUrl' = ResolveUrl(res.location[1], reqUrl)
    /\ maxRedirects' = maxRedirects - 1
    /\ pc' = "fetch"
    /\ UNCHANGED <<isHttps, callVars, args, targetUrl, requests, response, audits,
                   stderr, exitCode>>

\* fetchUrl, lines 199-207: any other response resolves the promise with
\* its status, its headers and the URL requested last.
FetchResolve ==
    /\ pc = "await"
    /\ \E res \in Responses :
        /\ ~IsRedirect(res, args.followRedirects, maxRedirects)
        /\ response' = Some([statusCode |-> res.statusCode,
                             headers |-> [location |-> res.location,
                                          setCookie |-> res.setCookie],
                             url |-> reqUrl])
    /\ pc' = "respond"
    /\ UNCHANGED <<isHttps, callVars, args, targetUrl, reqUrl, maxRedirects, requests,
                   audits, stderr, exitCode>>

\* main, lines 471-497: a response without Set-Cookie ends the run with 0.
MainNoCookies ==
    /\ pc = "respond"
    /\ response[1].headers.setCookie = <<>>
    /\ Exit(0)
    /\ UNCHANGED <<isHttps, callVars, args, targetUrl, reqUrl, maxRedirects, requests,
                   response, audits, stderr>>

\* rawCookies.map((raw) => auditCookie(parseCookie(raw), isHttps))
AuditAll(rawCookies, https) ==
    [i \in 1..Len(rawCookies) |-> auditCookie(parseCookie(rawCookies[i]), https)]

\* main, lines 499-557: every cookie is parsed and audited with isHttps;
\* under --ci a cookie graded below the minimum exits 1, and otherwise main
\* returns and the process ends with 0.
MainAudit ==
    /\ pc = "respond"
    /\ response[1].headers.setCookie # <<>>
    /\ audits' = AuditAll(response[1].headers.setCookie, isHttps)
    /\ IF args.ci /\ HasBadCookie(audits', args.minGrade) THEN Exit(1) ELSE Exit(0)
    /\ UNCHANGED <<isHttps, callVars, args, targetUrl, reqUrl, maxRedirects, requests,
                   response, stderr>>

Init == InitMain

Next ==
    \/ MainHelp
    \/ MainNoUrl
    \/ MainFetch
    \/ FetchRequest
    \/ FetchFails
    \/ FetchRedirect
    \/ FetchResolve
    \/ MainNoCookies
    \/ MainAudit

Spec == Init /\ [][Next]_vars

----------------------------------------------------------------------------
(* The scoring table of the specification *)

\* The UTF-8 byte length of a value: U+00E9 takes two bytes, the ASCII
\* characters one.
SpecByteLength(v) == Len(v) + Cardinality({i \in 1..Len(v) : v[i] = EAcute})

When(cond, points) == IF cond THEN points ELSE 0

SpecIsNone(c) == c.sameSite # Null /\ toLowerCase(c.sameSite[1]) = <<"n", "o", "n", "e">>

SpecIsHost(c) == startsWith(c.name, <<"_", "_", "H", "o", "s", "t", "-">>)

\* The sum of the deductions of the rules whose condition holds, for a value
\* of the given size.
SpecDeductions(c, https, valueSize) ==
      When(~c.httpOnly, 25)
    + When(~c.secure /\ https, 25)
    + When(~c.secure /\ ~https, 20)
    + When(c.sameSite = Null, 20)
    + When(SpecIsNone(c), 5)
    + When(SpecIsNone(c) /\ ~c.secure, 15)
    + When(c.path = Null, 5)
    + When(c.maxAge = Null /\ c.expires = Null, 2)
    + When(c.maxAge # Null /\ ~c.maxAge[1].nan /\ c.maxAge[1].n > 31536000, 5)
    + When(startsWith(c.name, <<"_", "_", "S", "e", "c", "u", "r", "e", "-">>) /\ ~c.secure, 10)
    + When(SpecIsHost(c) /\ ~c.secure, 10)
    + When(SpecIsHost(c) /\ c.path # Some(<<"/">>), 5)
    + When(SpecIsHost(c) /\ c.domain # Null, 5)
    + When(valueSize > 4096, 5)

SpecClamp(x) == IF x < 0 THEN 0 ELSE IF x > 100 THEN 100 ELSE x

----------------------------------------------------------------------------
(* Claims about auditCookie (SpecAudit) *)

\* C1: auditCookie's score is clamp(100 - D, 0, 100), D the sum of the
\* deductions of the table's rules that hold, rule 8 measuring the value in
\* bytes; the score is always within 0..100.
C1_ScoreIsClampedTableSum ==
    pc = "done" =>
        /\ audit[1].score = SpecClamp(100 - SpecDeductions(cookie, isHttps, SpecByteLength(cookie.value)))
        /\ audit[1].score \in 0..100

\* What does hold of the code: the same table with rule 8 measuring the
\* value in UTF-16 code units (String.prototype.length).
ScoreIsClampedTableSumOverCodeUnits ==
    pc = "done" =>
        /\ audit[1].score = SpecClamp(100 - SpecDeductions(cookie, isHttps, Len(cookie.value)))
        /\ audit[1].score \in 0..100

\* The deductions total more than 100 and the clamp acts.
ClampActs ==
    /\ pc = "done"
    /\ SpecDeductions(cookie, isHttps, Len(cookie.value)) > 100
    /\ audit[1].score = 0

\* C2: the grade is decided by the clamped score alone, with inclusive lower
\* bounds A >= 90, B 75..89, C 60..74, D 40..59, F <= 39, and every score in
\* 0..100 has exactly one grade.
C2_GradeFromScore ==
    /\ pc = "done" =>
        LET s == audit[1].score
            g == audit[1].grade
        IN  /\ g = "A" <=> s >= 90
            /\ g = "B" <=> (75 <= s /\ s <= 89)
            /\ g = "C" <=> (60 <= s /\ s <= 74)
            /\ g = "D" <=> (40 <= s /\ s <= 59)
            /\ g = "F" <=> s <= 39
    /\ \A s \in 0..100 :
        /\ GradeOf(s) \in {"A", "B", "C", "D", "F"}
        /\ GradeOf(s) = "A" <=> s >= 90
        /\ GradeOf(s) = "B" <=> (75 <= s /\ s <= 89)
        /\ GradeOf(s) = "C" <=> (60 <= s /\ s <= 74)
        /\ GradeOf(s) = "D" <=> (40 <= s /\ s <= 59)
        /\ GradeOf(s) = "F" <=> s <= 39

\* A cookie scored exactly 90 is graded A: the bound is inclusive.
C2_Witness == pc = "done" /\ audit[1].score = 90 /\ audit[1].grade = "A"

\* The values a SameSite attribute may be given, the empty one included.
PresentSameSites == {<<>>, StrLax, <<"S", "t", "r", "i", "c", "t">>, StrNone, StrNONE}

\* The records that differ from c in one security attribute added.
Improvements(c) ==
       {[c EXCEPT !.httpOnly = TRUE] : x \in {1} \cap (IF c.httpOnly THEN {} ELSE {1})}
    \cup {[c EXCEPT !.secure = TRUE] : x \in {1} \cap (IF c.secure THEN {} ELSE {1})}
    \cup {[c EXCEPT !.sameSite = Some(v)] :
            v \in (IF c.sameSite = Null THEN PresentSameSites ELSE {})}

\* C4: adding HttpOnly, Secure or a SameSite attribute (any value, None
\* included) to an otherwise unchanged cookie never lowers its score.
C4_Monotone ==
    pc = "done" =>
        \A c2 \in Improvements(cookie) :
            auditCookie(c2, isHttps).score >= audit[1].score

\* A cookie without Secure and without SameSite, scored above 0, to which
\* SameSite=None is added: the score stays the same, it does not drop.
C4_Witness ==
    /\ pc = "done"
    /\ cookie.sameSite = Null
    /\ ~cookie.secure
    /\ audit[1].score > 0
    /\ auditCookie([cookie EXCEPT !.sameSite = Some(StrNone)], isHttps).score
         = audit[1].score

----------------------------------------------------------------------------
(* Claims about parseCookie (SpecParse) *)

\* "__Host-a=1; Secure; SameSite=Lax"
HostLaxHeader == Join(<<SegHost, AttrSecure, AttrSameSiteLax>>, <<";", " ">>)

\* C3 as stated: "__Host-a=1; Secure; SameSite=Lax" parsed and scored under
\* secure transport loses 12 in all (no Path 5, __Host- path mismatch 5,
\* session cookie 2): score 88, grade B.
C3_HostLaxScores88 ==
    (pc = "done" /\ header = HostLaxHeader /\ isHttps) =>
        /\ audit[1].score = 88
        /\ audit[1].grade = "B"

\* C3 amended: the header carries no HttpOnly either, so it loses 37 in all
\* (missing HttpOnly 25, no Path 5, session cookie 2, __Host- path mismatch
\* 5): score 63, grade C.
C3_HostLaxScores63 ==
    (pc = "done" /\ header = HostLaxHeader /\ isHttps) =>
        /\ audit[1].issues = <<"missing-httponly", "no-path", "session-cookie",
                               "host-prefix-requires-path">>
        /\ audit[1].score = 63
        /\ audit[1].grade = "C"

C3_Witness == pc = "done" /\ header = HostLaxHeader /\ isHttps

\* The first ';'-segment of a raw header, trimmed.
FirstSegment(raw) == trim(Head(split(raw, ";")))

\* C5: the first segment is split on its first '=' wherever it stands
\* (position 0 included): name is the trimmed text before it, value the
\* trimmed text after it; without '=' the segment is the name and the value
\* is empty.
C5_FirstSegmentSplit ==
    pc # "parse" =>
        LET seg == FirstSegment(header)
            eq == indexOf(seg, "=")
        IN  IF eq # -1
            THEN /\ cookie.name = trim(slice(seg, 0, eq))
                 /\ cookie.value = trim(sliceFrom(seg, eq + 1))
            ELSE /\ cookie.name = seg
                 /\ cookie.value = <<>>

\* The attribute segments of a raw header, trimmed.
AttrSegmentsOf(raw) == Tail(HeaderParts(raw))

\* Whether segment seg is the attribute key=..., the key matched without
\* regard to case.
IsAttr(seg, key) == startsWith(toLowerCase(seg), key \o <<"=">>)

HasAttr(raw, key) ==
    \E i \in 1..Len(AttrSegmentsOf(raw)) : IsAttr(AttrSegmentsOf(raw)[i], key)

\* The trimmed text after the first '=' of the last segment for key.
LastAttrText(raw, key) ==
    LET segs == AttrSegmentsOf(raw)
        last == CHOOSE i \in 1..Len(segs) :
                    /\ IsAttr(segs[i], key)
                    /\ \A j \in (i + 1)..Len(segs) : ~IsAttr(segs[j], key)
    IN  trim(sliceFrom(segs[last], indexOf(segs[last], "=") + 1))

KeySameSite == <<"s", "a", "m", "e", "s", "i", "t", "e">>

KeyPath == <<"p", "a", "t", "h">>

KeyDomain == <<"d", "o", "m", "a", "i", "n">>

KeyExpires == <<"e", "x", "p", "i", "r", "e", "s">>

KeyMaxAge == <<"m", "a", "x", "-", "a", "g", "e">>

\* A decimal integer: an optional sign, then digits only.
IsNumeric(t) ==
    LET body == IF t # <<>> /\ Head(t) \in {"+", "-"} THEN Tail(t) ELSE t
    IN  body # <<>> /\ \A i \in 1..Len(body) : indexOf(Digits, body[i]) # -1

\* C6: a header with a max-age segment yields an integer maxAge, which is 0
\* when the text after "max-age=" is not numeric; never NaN.
C6_MaxAgeIsInteger ==
    (pc # "parse" /\ HasAttr(header, KeyMaxAge)) =>
        /\ cookie.maxAge # Null
        /\ ~cookie.maxAge[1].nan
        /\ ~IsNumeric(LastAttrText(header, KeyMaxAge)) => cookie.maxAge[1].n = 0

\* C7: sameSite, path and domain are null exactly when the header has no
\* segment for the attribute (a segment with an empty value is present), so
\* the rules "missing SameSite", "no Path" and "__Host- must not have
\* Domain" fire on the absence or presence of the segment.
C7_AbsenceIsNoSegment ==
    /\ pc # "parse" =>
        /\ cookie.sameSite = Null <=> ~HasAttr(header, KeySameSite)
        /\ cookie.path = Null <=> ~HasAttr(header, KeyPath)
        /\ cookie.domain = Null <=> ~HasAttr(header, KeyDomain)
    /\ pc = "done" =>
        LET fired(issue) == \E i \in 1..Len(audit[1].issues) : audit[1].issues[i] = issue
        IN  /\ fired("missing-samesite") <=> ~HasAttr(header, KeySameSite)
            /\ fired("no-path") <=> ~HasAttr(header, KeyPath)
            /\ SpecIsHost(cookie) =>
                 (fired("host-prefix-no-domain") <=> HasAttr(header, KeyDomain))

\* C8: the value stored for samesite, path, domain and expires is the whole
\* trimmed text after the first '=' of its segment, further '=' included;
\* for max-age it is that text parsed as an integer.  Stated for segments
\* whose text is not empty.
C8_ValueAfterFirstEquals ==
    pc # "parse" =>
        LET holds(key, field) ==
                (HasAttr(header, key) /\ LastAttrText(header, key) # <<>>) =>
                    field = Some(LastAttrText(header, key))
        IN  /\ holds(KeySameSite, cookie.sameSite)
            /\ holds(KeyPath, cookie.path)
            /\ holds(KeyDomain, cookie.domain)
            /\ holds(KeyExpires, cookie.expires)
            /\ (HasAttr(header, KeyMaxAge) /\ LastAttrText(header, KeyMaxAge) # <<>>) =>
                   cookie.maxAge = Some(parseInt(LastAttrText(header, KeyMaxAge)))

----------------------------------------------------------------------------
(* Claims about main (Spec) *)

\* The rank of a grade in the order F < D < C < B < A.
SpecRank(g) ==
    CASE g = "F" -> 1 [] g = "D" -> 2 [] g = "C" -> 3 [] g = "B" -> 4 [] g = "A" -> 5

\* --min-grade, C when the value given is no grade.
SpecMinGrade == IF args.minGrade \in {"A", "B", "C", "D", "F"} THEN args.minGrade ELSE "C"

\* The run must fail: no URL (and no --help), a failed fetch, or --ci with
\* an audited cookie graded below --min-grade.
SpecMustFail ==
    \/ ~args.help /\ args.url = <<>>
    \/ \E i \in 1..Len(stderr) : stderr[i] = "fetch-error"
    \/ /\ args.ci
       /\ \E i \in 1..Len(audits) : SpecRank(audits[i].grade) < SpecRank(SpecMinGrade)

\* C9: a run of main exits with 1 exactly when the URL is missing (without
\* --help), the fetch fails, or --ci is set and an audited cookie is graded
\* below --min-grade (default C); every other run exits with 0, a --ci run
\* whose response has no Set-Cookie included.
C9_ExitCode ==
    pc = "exited" =>
        /\ exitCode \in {Some(0), Some(1)}
        /\ exitCode = Some(1) <=> SpecMustFail

\* A --ci run with two cookies, the first graded at the minimum and the
\* second below it, exits with 1.
C9_Witness ==
    /\ pc = "exited"
    /\ args.ci
    /\ Len(audits) = 2
    /\ audits[1].grade = SpecMinGrade
    /\ SpecRank(audits[2].grade) < SpecRank(SpecMinGrade)
    /\ exitCode = Some(1)

\* A --ci run whose response carries no Set-Cookie header exits with 0.
CiNoCookiesExitsZero ==
    /\ pc = "exited"
    /\ args.ci
    /\ response # Null
    /\ response[1].headers.setCookie = <<>>
    /\ exitCode = Some(0)

\* C10: the flag the cookies of a response are audited with says whether
\* the request that produced the response, the last one after the redirects
\* followed, used https.
C10_FlagIsFinalTransport ==
    (pc = "exited" /\ audits # <<>>) =>
        /\ isHttps <=> Protocol(response[1].url) = <<"h", "t", "t", "p", "s", ":">>
        /\ audits = AuditAll(response[1].headers.setCookie,
                             Protocol(response[1].url) = <<"h", "t", "t", "p", "s", ":">>)

----------------------------------------------------------------------------
(* Claims about fetchUrl (Spec) *)

\* The top-level fetchUrl call is in progress.
Fetching == pc \in {"fetch", "await"}

\* The top-level fetchUrl call has ended, resolved or rejected.
FetchEnded ==
    \/ response # Null
    \/ \E i \in 1..Len(stderr) : stderr[i] = "fetch-error"

\* What is left of the fetch: two steps (request, response) for each
\* redirect that may still be followed, and one for a request not yet issued.
FetchMeasure == 2 * maxRedirects + (IF pc = "fetch" THEN 1 ELSE 0)

\* The response fetchUrl resolved with is a 3xx with a Location header.
ResolvedWithRedirect ==
    /\ response # Null
    /\ response[1].statusCode >= 300
    /\ response[1].statusCode < 400
    /\ response[1].headers.location # Null

\* The counts of C11 in a state.
RequestsBounded ==
    /\ requests <= 6
    /\ ~args.followRedirects => requests <= 1
    /\ FetchEnded => requests >= 1
    /\ (FetchEnded /\ ~args.followRedirects) => requests = 1
    /\ (ResolvedWithRedirect /\ args.followRedirects) =>
          (requests = 6 /\ maxRedirects = 0)
    /\ Fetching => ENABLED Next

\* The steps of C11: with the budget exhausted the response ends the fetch
\* (it is resolved as it is, or the request fails); and every step of a
\* fetch in progress ends it or lowers FetchMeasure, which is never negative.
FetchStep ==
    /\ (pc = "await" /\ maxRedirects = 0) => pc' \in {"respond", "exited"}
    /\ Fetching => (FetchMeasure >= 0 /\ (~Fetching' \/ FetchMeasure' < FetchMeasure))

\* C11: whatever the servers answer, a fetchUrl call issues at most 6
\* requests when redirects are followed (the first and at most 5 hops) and
\* exactly 1 when they are not; with the hops used up a 3xx response is
\* returned as the result; and the fetch ends, provided each request
\* completes, errors or times out: some step is always possible and each
\* step ends the fetch or brings it nearer its end.
C11_FetchBounded == []RequestsBounded /\ [][FetchStep]_vars

\* After 5 redirects followed, the sixth request is answered 302 with a
\* Location once more and that response is the result.
C11_Witness ==
    /\ args.followRedirects
    /\ ResolvedWithRedirect
    /\ requests = 6
    /\ pc = "respond"

\* With redirects disabled a 302 with a Location is the result of the first
\* and only request.
NoRedirectsOneRequest ==
    /\ ~args.followRedirects
    /\ ResolvedWithRedirect
    /\ requests = 1

====
